---- MODULE Spec2Model ----
(***************************************************************************)
(* d365-schema-compare: main.py as a state machine.                        *)
(*                                                                         *)
(* main() runs load_config, get_metadata and compare_environments in that  *)
(* order.  get_metadata retrieves the entity definitions of every          *)
(* configured environment, flattens them into rows and writes one CSV per  *)
(* environment; compare_environments reads the CSVs back and, for every    *)
(* environment but the baseline, outer-joins it with the baseline, keeps   *)
(* the rows that differ, labels them and pivots a per-entity summary.      *)
(*                                                                         *)
(* The pandas calls are modelled by what pandas does with them: NaN is     *)
(* equal to nothing (not even NaN) under == and different from everything  *)
(* under !=, merge matches NaN keys with each other and pairs every left   *)
(* row with every right row of the same key, sort_values is stable and     *)
(* puts NaN last, replace() with a dict rewrites every column of the       *)
(* frame, groupby drops NaN group keys and count() counts non-null cells.  *)
(***************************************************************************)
EXTENDS Integers, Sequences, FiniteSets, TLC

(***************************************************************************)
(* Cells.  A cell is None (Python None, pandas NaN) or Some(v).            *)
(***************************************************************************)
None == <<>>
Some(v) == <<v>>
isna(cell) == cell = None

\* Series == Series, elementwise: False whenever a side is NaN.
pd_eq(a, b) == ~isna(a) /\ ~isna(b) /\ a = b
\* Series != Series, elementwise: the negation of ==, so True on NaN.
pd_ne(a, b) == ~pd_eq(a, b)

(***************************************************************************)
(* Code-point order of the strings that occur as entity or column names,   *)
(* environment names and labels (Python compares str by code point, so     *)
(* upper case sorts before lower case).                                    *)
(***************************************************************************)
StringOrder ==
    << "Different Length", "Different Type", "Different Type\\Length",
       "Integer", "Missing in dev", "Missing in prod", "Missing in test",
       "String", "account", "both", "contact", "dev", "left_only", "name",
       "prod", "right_only", "test" >>

Rank(s) == CHOOSE i \in 1..Len(StringOrder) : StringOrder[i] = s

\* a sorts strictly before b; NaN sorts after every string (na_position='last').
CellBefore(a, b) ==
    /\ ~isna(a)
    /\ (isna(b) \/ Rank(a[1]) < Rank(b[1]))

\* (EntityName, ColumnName) of r1 is not after that of r2.
KeyNotAfter(r1, r2) ==
    \/ CellBefore(r1.EntityName, r2.EntityName)
    \/ /\ r1.EntityName = r2.EntityName
       /\ ~CellBefore(r2.ColumnName, r1.ColumnName)

(***************************************************************************)
(* get_metadata: the rows of one environment.                              *)
(***************************************************************************)
\* dict.get(key): None when the key is missing.
AttributeGet(attribute, key) ==
    IF key \in DOMAIN attribute THEN Some(attribute[key]) ELSE None

\* One row of entity_fields.
FieldRow(entity_logical_name, attribute) ==
    [ EntityName   |-> Some(entity_logical_name),
      ColumnName   |-> AttributeGet(attribute, "LogicalName"),
      ColumnType   |-> AttributeGet(attribute, "AttributeType"),
      ColumnLength |-> AttributeGet(attribute, "MaxLength") ]

\* A loop that skips the attributes without a LogicalName.
RECURSIVE AttributeRows_SkipUnnamed(_, _)
AttributeRows_SkipUnnamed(entity_logical_name, entity_attributes) ==
    IF entity_attributes = <<>> THEN <<>>
    ELSE (IF "LogicalName" \in DOMAIN Head(entity_attributes)
          THEN <<FieldRow(entity_logical_name, Head(entity_attributes))>>
          ELSE <<>>)
         \o AttributeRows_SkipUnnamed(entity_logical_name, Tail(entity_attributes))

\* The inner loop over entity['Attributes'].
RECURSIVE AttributeRows(_, _)
AttributeRows(entity_logical_name, entity_attributes) ==
    IF entity_attributes = <<>> THEN <<>>
    ELSE <<FieldRow(entity_logical_name, Head(entity_attributes))>>
         \o AttributeRows(entity_logical_name, Tail(entity_attributes))

\* The outer loop over result['value'].
RECURSIVE EntityFields(_)
EntityFields(entity_definitions) ==
    IF entity_definitions = <<>> THEN <<>>
    ELSE AttributeRows(Head(entity_definitions).LogicalName,
                       Head(entity_definitions).Attributes)
         \o EntityFields(Tail(entity_definitions))

\* The subscripts result['value'], entity['LogicalName'] and
\* entity['Attributes'] raise KeyError when the key is missing.
RaisesKeyError(result) ==
    \/ "value" \notin DOMAIN result
    \/ \E k \in 1..Len(result.value) :
          ~({"LogicalName", "Attributes"} \subseteq DOMAIN result.value[k])

(***************************************************************************)
(* The CSV files.  to_csv writes a missing value as the empty field and    *)
(* read_csv reads the empty field, and the other default NA markers, as    *)
(* NaN.  A number is written as its digits and parsed back to the same     *)
(* number, so the length column keeps its cells.                           *)
(***************************************************************************)
NaValues == {"", "#N/A", "N/A", "NA", "NULL", "NaN", "None", "n/a", "nan", "null"}

WriteText(cell) == IF isna(cell) THEN "" ELSE cell[1]
ReadText(text) == IF text \in NaValues THEN None ELSE Some(text)

WriteRow(row) ==
    [ EntityName   |-> WriteText(row.EntityName),
      ColumnName   |-> WriteText(row.ColumnName),
      ColumnType   |-> WriteText(row.ColumnType),
      ColumnLength |-> row.ColumnLength ]

ReadRow(line) ==
    [ EntityName   |-> ReadText(line.EntityName),
      ColumnName   |-> ReadText(line.ColumnName),
      ColumnType   |-> ReadText(line.ColumnType),
      ColumnLength |-> line.ColumnLength ]

to_csv(df) == [k \in 1..Len(df) |-> WriteRow(df[k])]
read_csv(file) == [k \in 1..Len(file) |-> ReadRow(file[k])]

(***************************************************************************)
(* sort_values(by=['EntityName', 'ColumnName'], ignore_index=True): a      *)
(* stable sort, rows of equal key keep their order.                        *)
(***************************************************************************)
RECURSIVE InsertSorted(_, _)
InsertSorted(row, sorted) ==
    IF sorted = <<>> THEN <<row>>
    ELSE IF KeyNotAfter(sorted[Len(sorted)], row) THEN Append(sorted, row)
    ELSE Append(InsertSorted(row, SubSeq(sorted, 1, Len(sorted) - 1)),
                sorted[Len(sorted)])

RECURSIVE sort_values(_)
sort_values(df) ==
    IF df = <<>> THEN <<>>
    ELSE InsertSorted(df[Len(df)], sort_values(SubSeq(df, 1, Len(df) - 1)))

(***************************************************************************)
(* environment_df.merge(right=baseline_df, how='outer',                    *)
(*                      on=['EntityName', 'ColumnName'], indicator=True)   *)
(***************************************************************************)
\* Join keys are equal; NaN keys match each other.
SameKey(l, r) == l.EntityName = r.EntityName /\ l.ColumnName = r.ColumnName

MergedRow(key, left_cells, right_cells, indicator) ==
    [ EntityName             |-> key.EntityName,
      ColumnName             |-> key.ColumnName,
      ColumnType_environment |-> left_cells[1],
      ColumnLength_environment |-> left_cells[2],
      ColumnType_baseline    |-> right_cells[1],
      ColumnLength_baseline  |-> right_cells[2],
      _merge                 |-> indicator ]

\* The rows one left row contributes: one per right row of its key, or one
\* 'left_only' row.
RECURSIVE JoinLeftRow(_, _)
JoinLeftRow(l, right) ==
    IF right = <<>> THEN <<>>
    ELSE (IF SameKey(l, Head(right))
          THEN <<MergedRow(l, <<l.ColumnType, l.ColumnLength>>,
                           <<Head(right).ColumnType, Head(right).ColumnLength>>,
                           "both")>>
          ELSE <<>>)
         \o JoinLeftRow(l, Tail(right))

RECURSIVE JoinLeft(_, _)
JoinLeft(left, right) ==
    IF left = <<>> THEN <<>>
    ELSE (IF JoinLeftRow(Head(left), right) = <<>>
          THEN <<MergedRow(Head(left),
                           <<Head(left).ColumnType, Head(left).ColumnLength>>,
                           <<None, None>>, "left_only")>>
          ELSE JoinLeftRow(Head(left), right))
         \o JoinLeft(Tail(left), right)

\* The right rows no left row matches.
RECURSIVE RightOnly(_, _)
RightOnly(left, right) ==
    IF right = <<>> THEN <<>>
    ELSE (IF \E k \in 1..Len(left) : SameKey(left[k], Head(right))
          THEN <<>>
          ELSE <<MergedRow(Head(right), <<None, None>>,
                           <<Head(right).ColumnType, Head(right).ColumnLength>>,
                           "right_only")>>)
         \o RightOnly(left, Tail(right))

merge(left, right) == JoinLeft(left, right) \o RightOnly(left, right)

(***************************************************************************)
(* The differences frame: merged_df without the rows the mask selects.     *)
(* drop() keeps the index labels of the rows that stay.                    *)
(***************************************************************************)
\* The mask of lines 211-221: type equal (or both NaN) and length equal (or
\* both NaN).
DropMask(m) ==
    /\ \/ pd_eq(m.ColumnType_environment, m.ColumnType_baseline)
       \/ isna(m.ColumnType_environment) /\ isna(m.ColumnType_baseline)
    /\ \/ pd_eq(m.ColumnLength_environment, m.ColumnLength_baseline)
       \/ isna(m.ColumnLength_environment) /\ isna(m.ColumnLength_baseline)

IndexedRow(m, k) ==
    [ index                  |-> k,
      EntityName             |-> m.EntityName,
      ColumnName             |-> m.ColumnName,
      ColumnType_environment |-> m.ColumnType_environment,
      ColumnLength_environment |-> m.ColumnLength_environment,
      ColumnType_baseline    |-> m.ColumnType_baseline,
      ColumnLength_baseline  |-> m.ColumnLength_baseline,
      _merge                 |-> m._merge ]

RECURSIVE DropFrom(_, _)
DropFrom(merged_df, k) ==
    IF k > Len(merged_df) THEN <<>>
    ELSE (IF DropMask(merged_df[k]) THEN <<>>
          ELSE <<IndexedRow(merged_df[k], k)>>)
         \o DropFrom(merged_df, k + 1)

DropEqualRows(merged_df) == DropFrom(merged_df, 1)

(***************************************************************************)
(* The labels (lines 224-243).                                             *)
(***************************************************************************)
\* The two .loc assignments, in their order: the second reads the labels the
\* first has written.
LabelType(d) ==
    IF d._merge = "both"
       /\ pd_ne(d.ColumnType_environment, d.ColumnType_baseline)
    THEN [d EXCEPT !._merge = "Different Type"]
    ELSE d

LabelLength(d) ==
    IF d._merge = "both"
       /\ pd_eq(d.ColumnType_environment, d.ColumnType_baseline)
    THEN [d EXCEPT !._merge = "Different Length"]
    ELSE d

\* DataFrame.replace(to_replace={...}): a value equal to a key of the dict is
\* replaced in whatever column it stands.
ReplaceText(text, environment_name, baseline_name) ==
    CASE text = "left_only"  -> "Missing in " \o baseline_name
      [] text = "right_only" -> "Missing in " \o environment_name
      [] text = "both"       -> "Different Type\\Length"
      [] OTHER               -> text

ReplaceCell(cell, environment_name, baseline_name) ==
    IF isna(cell) THEN cell
    ELSE Some(ReplaceText(cell[1], environment_name, baseline_name))

\* The replace and the rename of _merge to Difference.  The length columns
\* hold numbers, which equal none of the keys.
ReplaceRow(d, environment_name, baseline_name) ==
    [ index                  |-> d.index,
      EntityName             |-> ReplaceCell(d.EntityName, environment_name, baseline_name),
      ColumnName             |-> ReplaceCell(d.ColumnName, environment_name, baseline_name),
      ColumnType_environment |-> ReplaceCell(d.ColumnType_environment, environment_name, baseline_name),
      ColumnLength_environment |-> d.ColumnLength_environment,
      ColumnType_baseline    |-> ReplaceCell(d.ColumnType_baseline, environment_name, baseline_name),
      ColumnLength_baseline  |-> d.ColumnLength_baseline,
      Difference             |-> ReplaceText(d._merge, environment_name, baseline_name) ]

LabelRow(d, environment_name, baseline_name) ==
    ReplaceRow(LabelLength(LabelType(d)), environment_name, baseline_name)

LabelDifferences(dropped, environment_name, baseline_name) ==
    [k \in 1..Len(dropped) |-> LabelRow(dropped[k], environment_name, baseline_name)]

(***************************************************************************)
(* The summary (lines 245-249): groupby(['EntityName', 'Difference'])      *)
(* ["ColumnName"].count(), then pivot_table(..., fill_value=0).            *)
(***************************************************************************)
\* groupby drops the rows whose group key is NaN.
GroupKeys(differences_df) ==
    { <<differences_df[k].EntityName[1], differences_df[k].Difference>> :
        k \in {n \in 1..Len(differences_df) : ~isna(differences_df[n].EntityName)} }

\* count(): the non-null ColumnName cells of the group.
GroupCount(differences_df, entity, difference) ==
    Cardinality({ k \in 1..Len(differences_df) :
                    /\ differences_df[k].EntityName = Some(entity)
                    /\ differences_df[k].Difference = difference
                    /\ ~isna(differences_df[k].ColumnName) })

\* One row per entity of a group, one column per label of a group, 0 where
\* the entity has no group of that label.
Summarize(differences_df) ==
    [ entity \in {g[1] : g \in GroupKeys(differences_df)} |->
        [ difference \in {g[2] : g \in GroupKeys(differences_df)} |->
            IF <<entity, difference>> \in GroupKeys(differences_df)
            THEN GroupCount(differences_df, entity, difference)
            ELSE 0 ] ]

(***************************************************************************)
(* The run.                                                                *)
(***************************************************************************)
VARIABLES
    config,               \* config.yaml: a dict that may lack 'environments' or 'baseline'
    remote,               \* remote[k]: what EntityDefinitions returns for the k-th environment
    results,              \* the results folder: file name -> content
    pc,                   \* where main() stands
    raised,               \* the exception that ended the run, or "none"
    environment_index,    \* get_metadata: the environment the loop is at
    entity_fields,        \* get_metadata: the rows collected last
    baseline_df,          \* compare_environments: the baseline frame
    compare_index,        \* compare_environments: the environment the loop is at
    merged_df,            \* compare_environments: the frames computed last
    differences_df,
    differences_summary

vars == << config, remote, results, pc, raised, environment_index, entity_fields,
           baseline_df, compare_index, merged_df, differences_df,
           differences_summary >>

get_metadata_vars == << environment_index, entity_fields >>
compare_vars == << baseline_df, compare_index, merged_df, differences_df,
                   differences_summary >>

\* The files of the results folder.
EntityFieldsFile(environment_name) == "entity_fields_" \o environment_name \o ".csv"
MergedFile(environment_name, baseline_name) ==
    "merged_" \o environment_name \o "_" \o baseline_name \o ".csv"
DetailFile(environment_name, baseline_name) ==
    "differences_" \o environment_name \o "_" \o baseline_name \o "_detail.html"
SummaryFile(environment_name, baseline_name) ==
    "differences_" \o environment_name \o "_" \o baseline_name \o "_summary.html"

\* results with file name written (created or overwritten).
WriteFile(folder, name, content) ==
    [f \in DOMAIN folder \cup {name} |-> IF f = name THEN content ELSE folder[f]]

NoFiles == <<>>

\* The keys of config['environments'], in the order of the file.
Environments == config.environments

\* The loop of compare_environments without its filter.
NonBaseline_AllEnvironments == config.environments

\* [env for env in config['environments'] if env != baseline_name]
NonBaseline == SelectSeq(Environments, LAMBDA env : env # config.baseline)

(***************************************************************************)
(* load_config (lines 103-137).  The checks come before the results folder *)
(* is touched; CLEAN_RESULTS empties it.                                   *)
(***************************************************************************)
\* The checks without the one that the baseline is among the environments.
ConfigError_NoMembershipCheck ==
    IF "environments" \notin DOMAIN config THEN "SyntaxError"
    ELSE IF "baseline" \notin DOMAIN config THEN "SyntaxError"
    ELSE "none"

ConfigError ==
    IF "environments" \notin DOMAIN config THEN "SyntaxError"
    ELSE IF "baseline" \notin DOMAIN config THEN "SyntaxError"
    ELSE IF \A k \in 1..Len(config.environments) :
                config.environments[k] # config.baseline
    THEN "ValueError"
    ELSE "none"

load_config ==
    /\ pc = "load_config"
    /\ IF ConfigError # "none"
       THEN /\ raised' = ConfigError
            /\ pc' = "raised"
            /\ UNCHANGED results
       ELSE /\ results' = NoFiles
            /\ pc' = "get_metadata"
            /\ UNCHANGED raised
    /\ UNCHANGED << config, remote, get_metadata_vars, compare_vars >>

(***************************************************************************)
(* get_metadata (lines 140-185): one pass of the loop over the             *)
(* environments: retrieve, flatten, write the CSV.                         *)
(***************************************************************************)
\* The entities the loop of line 167 gets through before a KeyError.
RECURSIVE WellFormedPrefix(_)
WellFormedPrefix(entity_definitions) ==
    IF entity_definitions = <<>> THEN <<>>
    ELSE IF {"LogicalName", "Attributes"} \subseteq DOMAIN Head(entity_definitions)
    THEN <<Head(entity_definitions)>> \o WellFormedPrefix(Tail(entity_definitions))
    ELSE <<>>

get_metadata ==
    /\ pc = "get_metadata"
    /\ LET environment_name == Environments[environment_index]
           result == remote[environment_index]
       IN  IF RaisesKeyError(result)
           THEN /\ raised' = "KeyError"
                /\ pc' = "raised"
                /\ entity_fields' = IF "value" \in DOMAIN result
                                    THEN EntityFields(WellFormedPrefix(result.value))
                                    ELSE entity_fields
                /\ UNCHANGED << results, environment_index >>
           ELSE /\ entity_fields' = EntityFields(result.value)
                /\ results' = WriteFile(results, EntityFieldsFile(environment_name),
                                        to_csv(EntityFields(result.value)))
                /\ environment_index' = environment_index + 1
                /\ pc' = IF environment_index = Len(Environments)
                         THEN "compare_environments" ELSE "get_metadata"
                /\ UNCHANGED raised
    /\ UNCHANGED << config, remote, compare_vars >>

(***************************************************************************)
(* compare_environments (lines 188-257).                                   *)
(***************************************************************************)
\* Lines 191-194: the baseline frame.
read_baseline ==
    /\ pc = "compare_environments"
    /\ IF EntityFieldsFile(config.baseline) \notin DOMAIN results
       THEN /\ raised' = "FileNotFoundError"
            /\ pc' = "raised"
            /\ UNCHANGED baseline_df
       ELSE /\ baseline_df' = sort_values(read_csv(results[EntityFieldsFile(config.baseline)]))
            /\ pc' = IF NonBaseline = <<>> THEN "done" ELSE "compare_loop"
            /\ UNCHANGED raised
    /\ UNCHANGED << config, remote, results, get_metadata_vars, compare_index,
                    merged_df, differences_df, differences_summary >>

\* read_csv gives a column of text the dtype object, and a column with
\* nothing but missing values (in a file with rows) the dtype float64.
KeyDtype(df) ==
    IF df # <<>> /\ \A k \in 1..Len(df) : isna(df[k].ColumnName)
    THEN "float64" ELSE "object"

\* merge refuses key columns of which one is numeric and the other text
\* ("You are trying to merge on float64 and object columns"); it does not
\* look at the dtypes when one of the two frames has no rows.
MergeRaises(environment_df, base_df) ==
    /\ environment_df # <<>>
    /\ base_df # <<>>
    /\ KeyDtype(environment_df) # KeyDtype(base_df)

\* Lines 204-205.
MergeSorted(environment_df, base_df) == sort_values(merge(environment_df, base_df))

\* Lines 210-243.
Differences(merged, environment_name, baseline_name) ==
    LabelDifferences(DropEqualRows(merged), environment_name, baseline_name)

\* Lines 197-256: one pass of the loop over the other environments.
compare_environment ==
    /\ pc = "compare_loop"
    /\ LET environment_name == NonBaseline[compare_index]
           baseline_name == config.baseline
       IN  IF EntityFieldsFile(environment_name) \notin DOMAIN results
           THEN /\ raised' = "FileNotFoundError"
                /\ pc' = "raised"
                /\ UNCHANGED << results, compare_index, merged_df, differences_df,
                                differences_summary >>
           ELSE IF MergeRaises(
                     sort_values(read_csv(results[EntityFieldsFile(environment_name)])),
                     baseline_df)
           THEN /\ raised' = "ValueError"
                /\ pc' = "raised"
                /\ UNCHANGED << results, compare_index, merged_df, differences_df,
                                differences_summary >>
           ELSE LET environment_df ==
                        sort_values(read_csv(results[EntityFieldsFile(environment_name)]))
                    merged == MergeSorted(environment_df, baseline_df)
                    differences == Differences(merged, environment_name, baseline_name)
                    summary == Summarize(differences)
                IN  /\ merged_df' = merged
                    /\ differences_df' = differences
                    /\ differences_summary' = summary
                    /\ results' =
                         WriteFile(
                           WriteFile(
                             WriteFile(results,
                                       MergedFile(environment_name, baseline_name), merged),
                             DetailFile(environment_name, baseline_name), differences),
                           SummaryFile(environment_name, baseline_name), summary)
                    /\ compare_index' = compare_index + 1
                    /\ pc' = IF compare_index = Len(NonBaseline)
                             THEN "done" ELSE "compare_loop"
                    /\ UNCHANGED raised
    /\ UNCHANGED << config, remote, baseline_df, get_metadata_vars >>

Next == load_config \/ get_metadata \/ read_baseline \/ compare_environment

(***************************************************************************)
(* Inputs.  An attribute is a dict that may lack any of LogicalName,       *)
(* AttributeType and MaxLength; an entity is a dict with LogicalName and   *)
(* Attributes (a malformed one lacks either); a response is a dict with    *)
(* 'value' (a malformed one lacks it).                                     *)
(***************************************************************************)
MaxSize == 3        \* Spec: entities plus attributes over all responses of a run
MaxPayload == 4     \* SpecNormalize: entities plus attributes of the response
MaxRows == 2        \* SpecCompare: attributes of a response

\* The attribute with the given cells; a None cell is a missing key.
AttributeDict(name, type, length) ==
    [ key \in (IF isna(name) THEN {} ELSE {"LogicalName"})
              \cup (IF isna(type) THEN {} ELSE {"AttributeType"})
              \cup (IF isna(length) THEN {} ELSE {"MaxLength"}) |->
        CASE key = "LogicalName"   -> name[1]
          [] key = "AttributeType" -> type[1]
          [] key = "MaxLength"     -> length[1] ]

AttributeDicts(names, types, lengths) ==
    { AttributeDict(n, t, l) : n \in names, t \in types, l \in lengths }

\* Entities of one size: the entity itself counts 1, each attribute 1.
EntitiesOfSize(size, entity_names, attributes) ==
    { [LogicalName |-> e, Attributes |-> as] :
        e \in entity_names, as \in [1..(size - 1) -> attributes] }
    \cup (IF size = 1
          THEN { [LogicalName |-> "account"], [Attributes |-> <<>>] }
          ELSE {})

\* The entity lists of one size.
RECURSIVE EntityLists(_, _, _)
EntityLists(size, entity_names, attributes) ==
    IF size = 0 THEN { <<>> }
    ELSE UNION { { <<entity>> \o rest :
                     entity \in EntitiesOfSize(first, entity_names, attributes),
                     rest \in EntityLists(size - first, entity_names, attributes) } :
                 first \in 1..size }

\* The responses of one size; the one without 'value' has size 1.
Responses(size, entity_names, attributes) ==
    { [value |-> list] : list \in EntityLists(size, entity_names, attributes) }
    \cup (IF size = 1 THEN { [error |-> "Bad Request"] } ELSE {})

\* One response per environment, of at most budget in all.
RECURSIVE Remotes(_, _, _, _)
Remotes(count, budget, entity_names, attributes) ==
    IF count = 0 THEN { <<>> }
    ELSE UNION { { <<response>> \o rest :
                     response \in Responses(size, entity_names, attributes),
                     rest \in Remotes(count - 1, budget - size, entity_names, attributes) } :
                 size \in 0..budget }

(***************************************************************************)
(* Spec: the whole run, over every configuration of up to three            *)
(* environments.                                                           *)
(***************************************************************************)
EnvironmentLists ==
    { <<>>, <<"prod">>, <<"dev", "prod">>, <<"prod", "dev">>,
      <<"dev", "prod", "test">> }

Baselines == { "prod", "test" }

Configs ==
    { [environments |-> l, baseline |-> b] : l \in EnvironmentLists, b \in Baselines }
    \cup { [environments |-> l] : l \in EnvironmentLists }
    \cup { [baseline |-> b] : b \in Baselines }

RunEntityNames == { "account" }
RunAttributes ==
    AttributeDicts({Some("name")}, {Some("String"), Some("Integer")}, {None, Some(100)})

\* What an earlier run may have left in the results folder.
StaleResults ==
    { NoFiles,
      [f \in {EntityFieldsFile("prod")} |->
          to_csv(<<FieldRow("contact", AttributeDict(Some("name"), Some("String"), None))>>)] }

InitLocals ==
    /\ pc = "load_config"
    /\ raised = "none"
    /\ environment_index = 1
    /\ entity_fields = <<>>
    /\ baseline_df = <<>>
    /\ compare_index = 1
    /\ merged_df = <<>>
    /\ differences_df = <<>>
    /\ differences_summary = <<>>

Init ==
    /\ config \in Configs
    /\ remote \in Remotes(IF "environments" \in DOMAIN config
                          THEN Len(config.environments) ELSE 0,
                          MaxSize, RunEntityNames, RunAttributes)
    /\ results \in StaleResults
    /\ InitLocals

Spec == Init /\ [][Next]_vars

(***************************************************************************)
(* SpecNormalize: get_metadata on one environment, over every response of  *)
(* up to MaxPayload entities and attributes.                               *)
(***************************************************************************)
NormalizeEntityNames == { "account", "contact" }
NormalizeAttributes ==
    AttributeDicts({None, Some("name")}, {None, Some("String")}, {None, Some(100)})

InitNormalize ==
    /\ config = [environments |-> <<"prod">>, baseline |-> "prod"]
    /\ remote \in Remotes(1, MaxPayload, NormalizeEntityNames, NormalizeAttributes)
    /\ results = NoFiles
    /\ InitLocals

NextNormalize == load_config \/ get_metadata

SpecNormalize == InitNormalize /\ [][NextNormalize]_vars

(***************************************************************************)
(* SpecCompare: compare_environments on the snapshots get_metadata has     *)
(* written for an environment and the baseline, over every pair of         *)
(* responses of up to MaxRows attributes each.                             *)
(***************************************************************************)
\* The attributes a response is drawn from, each with its entity: every
\* combination of a missing, equal or different type and length under one
\* key, attributes without a name, and an entity named like a merge indicator.
CompareRecords ==
    { <<"account", a>> :
        a \in AttributeDicts({Some("name")},
                             {None, Some("String"), Some("Integer")},
                             {None, Some(100), Some(200)}) }
    \cup { <<"account", a>> :
             a \in AttributeDicts({None}, {Some("String")}, {None, Some(100)}) }
    \cup { <<"both", a>> :
             a \in AttributeDicts({Some("name")}, {Some("String")}, {Some(100)}) }

\* The responses of up to MaxRows attributes, one entity object per attribute.
FlatResponses ==
    UNION { { [value |-> [k \in 1..n |->
                            [LogicalName |-> rs[k][1], Attributes |-> <<rs[k][2]>>]]] :
                rs \in [1..n -> CompareRecords] } :
            n \in 0..MaxRows }

\* The results folder get_metadata leaves for the two responses.
SnapshotFiles(environment_result, baseline_result) ==
    WriteFile(WriteFile(NoFiles, EntityFieldsFile("dev"),
                        to_csv(EntityFields(environment_result.value))),
              EntityFieldsFile("prod"),
              to_csv(EntityFields(baseline_result.value)))

InitCompare ==
    /\ config = [environments |-> <<"dev", "prod">>, baseline |-> "prod"]
    /\ remote \in { <<e, b>> : e \in FlatResponses, b \in FlatResponses }
    /\ results = SnapshotFiles(remote[1], remote[2])
    /\ pc = "compare_environments"
    /\ raised = "none"
    /\ environment_index = 3
    /\ entity_fields = EntityFields(remote[2].value)
    /\ baseline_df = <<>>
    /\ compare_index = 1
    /\ merged_df = <<>>
    /\ differences_df = <<>>
    /\ differences_summary = <<>>

NextCompare == read_baseline \/ compare_environment

SpecCompare == InitCompare /\ [][NextCompare]_vars

(***************************************************************************)
(* Claims about compare_environments (SpecCompare: "dev" against the       *)
(* baseline "prod").                                                       *)
(***************************************************************************)
\* The comparison of the environment with the baseline has run to its end.
Compared == pc = "done"

\* The two snapshots, as compare_environments reads them.
EnvironmentSnapshot == read_csv(results[EntityFieldsFile(NonBaseline[1])])
BaselineSnapshot == read_csv(results[EntityFieldsFile(config.baseline)])

KeyOf(row) == << row.EntityName, row.ColumnName >>
Keys(df) == { KeyOf(df[k]) : k \in 1..Len(df) }

\* The rows of the Difference output that come from the joined rows of a key.
DifferencesOfKey(key) ==
    { k \in 1..Len(differences_df) : KeyOf(merged_df[differences_df[k].index]) = key }

\* The row of the Difference output that comes from joined row k, if any.
DifferencesOfRow(k) ==
    { n \in 1..Len(differences_df) : differences_df[n].index = k }

\* Equality of two cells as the spec has it: absent equals absent.
SameType(m) == m.ColumnType_environment = m.ColumnType_baseline
SameLength(m) == m.ColumnLength_environment = m.ColumnLength_baseline

\* C1: every key that is in exactly one of the two snapshots appears in the
\* Difference output, labelled 'Missing in <baseline>' when only the
\* environment has it and 'Missing in <environment>' when only the baseline
\* has it, whatever its type and length are (both absent included).
C1_OneSidedKeysAreReported ==
    Compared =>
        /\ \A key \in Keys(EnvironmentSnapshot) \ Keys(BaselineSnapshot) :
              \E k \in DifferencesOfKey(key) :
                  differences_df[k].Difference = "Missing in " \o config.baseline
        /\ \A key \in Keys(BaselineSnapshot) \ Keys(EnvironmentSnapshot) :
              \E k \in DifferencesOfKey(key) :
                  differences_df[k].Difference = "Missing in " \o NonBaseline[1]

\* C2: a joined row of presence BOTH whose types are equal (absent on both
\* sides counts as equal) and whose lengths differ (absent against present
\* counts as different) is labelled 'Different Length'.
C2_LengthMismatchIsLabelled ==
    Compared =>
        \A k \in 1..Len(merged_df) :
            ( /\ merged_df[k]._merge = "both"
              /\ SameType(merged_df[k])
              /\ ~SameLength(merged_df[k]) )
            => /\ DifferencesOfRow(k) # {}
               /\ \A n \in DifferencesOfRow(k) :
                     differences_df[n].Difference = "Different Length"

\* C3: a key that is in both snapshots with different types is labelled
\* 'Different Type', never 'Different Length', whether or not its lengths
\* differ too, and it is reported exactly once.
C3_TypeMismatchIsReportedOnce ==
    Compared =>
        \A k \in 1..Len(merged_df) :
            ( /\ merged_df[k]._merge = "both"
              /\ ~SameType(merged_df[k]) )
            => /\ \A n \in DifferencesOfRow(k) :
                     differences_df[n].Difference = "Different Type"
               /\ Cardinality(DifferencesOfKey(KeyOf(merged_df[k]))) = 1

\* C4: a key that is in both snapshots with equal types and equal lengths
\* (absent on both sides counts as equal) is not in the Difference output,
\* and two identical snapshots give no Difference at all.
C4_EqualFieldsAreNotReported ==
    Compared =>
        /\ \A k \in 1..Len(merged_df) :
              ( /\ merged_df[k]._merge = "both"
                /\ SameType(merged_df[k])
                /\ SameLength(merged_df[k]) )
              => DifferencesOfRow(k) = {}
        /\ EnvironmentSnapshot = BaselineSnapshot => differences_df = <<>>

\* The presence a key has by its membership in the two snapshots.
PresenceOf(key) ==
    IF key \in Keys(EnvironmentSnapshot) /\ key \in Keys(BaselineSnapshot) THEN "both"
    ELSE IF key \in Keys(EnvironmentSnapshot) THEN "left_only"
    ELSE "right_only"

\* C5: the outer join holds exactly one row for every key of either snapshot,
\* and the row's presence tells which snapshots have the key, for every
\* snapshot get_metadata can write.
C5_OneJoinedRowPerKey ==
    Compared =>
        \A key \in Keys(EnvironmentSnapshot) \cup Keys(BaselineSnapshot) :
            /\ Cardinality({ k \in 1..Len(merged_df) : KeyOf(merged_df[k]) = key }) = 1
            /\ \A k \in 1..Len(merged_df) :
                  KeyOf(merged_df[k]) = key => merged_df[k]._merge = PresenceOf(key)

\* C6: the Difference output is in ascending (EntityName, ColumnName) order.
C6_DifferencesAreSorted ==
    Compared =>
        \A k \in 1..(Len(differences_df) - 1) :
            KeyNotAfter(differences_df[k], differences_df[k + 1])

\* The Differences of an entity, and those of one label.
DifferencesOfEntity(entity) ==
    { k \in 1..Len(differences_df) : differences_df[k].EntityName = Some(entity) }
DifferencesOfKind(entity, difference) ==
    { k \in DifferencesOfEntity(entity) : differences_df[k].Difference = difference }

DifferenceKinds ==
    { "Missing in " \o config.baseline, "Missing in " \o NonBaseline[1],
      "Different Type", "Different Length" }

\* C7: the summary has a row for an entity iff the entity has a Difference,
\* and each cell of the row is the number of Differences of that entity and
\* label (no column, or 0, where there is none).
C7_SummaryCountsDifferences ==
    Compared =>
        /\ \A k \in 1..Len(differences_df) :
              ~isna(differences_df[k].EntityName)
              => differences_df[k].EntityName[1] \in DOMAIN differences_summary
        /\ \A entity \in DOMAIN differences_summary :
              /\ DifferencesOfEntity(entity) # {}
              /\ \A difference \in DifferenceKinds :
                    Cardinality(DifferencesOfKind(entity, difference))
                    = IF difference \in DOMAIN differences_summary[entity]
                      THEN differences_summary[entity][difference] ELSE 0

(***************************************************************************)
(* Claims about the run (Spec) and about get_metadata (SpecNormalize).     *)
(***************************************************************************)
\* The run has ended, by returning or by an exception.
Ended == pc \in { "done", "raised" }

\* C8: an error for one environment (a malformed response, a missing
\* snapshot) does not keep the other environments from being retrieved,
\* flattened, saved and compared: every other environment but the baseline
\* whose response is well formed has its snapshot and its comparison at the
\* end of the run.
C8_OtherEnvironmentsAreProcessed ==
    ( /\ Ended
      /\ ConfigError = "none"
      /\ \A k \in 1..Len(Environments) :
            Environments[k] = config.baseline => ~RaisesKeyError(remote[k]) )
    => \A k \in 1..Len(Environments) :
          ( /\ Environments[k] # config.baseline
            /\ ~RaisesKeyError(remote[k]) )
          => /\ EntityFieldsFile(Environments[k]) \in DOMAIN results
             /\ DetailFile(Environments[k], config.baseline) \in DOMAIN results
             /\ SummaryFile(Environments[k], config.baseline) \in DOMAIN results

\* The configured environments, none when the key is missing.
EnvironmentSet ==
    IF "environments" \in DOMAIN config
    THEN { config.environments[k] : k \in 1..Len(config.environments) }
    ELSE {}

\* The baseline is not one of the environments, or there is no environment.
BadConfig ==
    \/ EnvironmentSet = {}
    \/ "baseline" \notin DOMAIN config
    \/ config.baseline \notin EnvironmentSet

\* C9: with a baseline that is not one of the environments, or with no
\* environment, the run fails at startup with a configuration error: the
\* only step it takes raises, and nothing is retrieved, written or compared.
C9_BadConfigFailsAtStartup ==
    /\ [](BadConfig /\ pc = "load_config" => ENABLED load_config)
    /\ [][ BadConfig =>
             /\ pc' = "raised"
             /\ raised' \in { "SyntaxError", "ValueError" }
             /\ UNCHANGED << results, get_metadata_vars, compare_vars >> ]_vars

\* The run has failed on a baseline that is not among the environments and
\* has left the files of an earlier run alone.
C9_Witness ==
    /\ pc = "raised"
    /\ raised = "ValueError"
    /\ "environments" \in DOMAIN config
    /\ config.environments # <<>>
    /\ "baseline" \in DOMAIN config
    /\ config.baseline \notin EnvironmentSet
    /\ results # NoFiles

\* The number of attributes of the entities before the k-th.
RECURSIVE AttributesBefore(_, _)
AttributesBefore(entity_definitions, k) ==
    IF k = 1 THEN 0
    ELSE AttributesBefore(entity_definitions, k - 1)
         + Len(entity_definitions[k - 1].Attributes)

\* C10: from a response that is a list of entities, each with a logical name
\* and a list of attributes, get_metadata collects exactly one row per
\* attribute, in the order of the entities and of their attributes, and an
\* attribute without name, type or maximum length gives a row with that cell
\* absent.
C10_OneRowPerAttributeInOrder ==
    ( pc = "compare_environments" /\ raised = "none" ) =>
        LET value == remote[1].value IN
        /\ Len(entity_fields) = AttributesBefore(value, Len(value) + 1)
        /\ \A e \in 1..Len(value) :
              \A a \in 1..Len(value[e].Attributes) :
                  LET attribute == value[e].Attributes[a]
                      row == entity_fields[AttributesBefore(value, e) + a]
                  IN  /\ row.EntityName = Some(value[e].LogicalName)
                      /\ row.ColumnName = IF "LogicalName" \in DOMAIN attribute
                                          THEN Some(attribute.LogicalName) ELSE None
                      /\ row.ColumnType = IF "AttributeType" \in DOMAIN attribute
                                          THEN Some(attribute.AttributeType) ELSE None
                      /\ row.ColumnLength = IF "MaxLength" \in DOMAIN attribute
                                            THEN Some(attribute.MaxLength) ELSE None

\* Two entities of different names, the first with an attribute that has
\* none of the three keys, the second with one that has them all.
C10_Witness ==
    /\ pc = "compare_environments"
    /\ raised = "none"
    /\ Len(remote[1].value) = 2
    /\ remote[1].value[1].LogicalName # remote[1].value[2].LogicalName
    /\ Len(remote[1].value[1].Attributes) = 1
    /\ DOMAIN remote[1].value[1].Attributes[1] = {}
    /\ Len(remote[1].value[2].Attributes) = 1
    /\ DOMAIN remote[1].value[2].Attributes[1]
         = { "LogicalName", "AttributeType", "MaxLength" }
    /\ Len(entity_fields) = 2

(***************************************************************************)
(* Claims about the order of a run (Spec).                                 *)
(***************************************************************************)
\* Every name an environment or a baseline has in Configs.
EnvironmentNames == { "dev", "prod", "test" }

\* The pairs (environment, baseline) with a comparison file in the results
\* folder.
ComparedPairs ==
    { pair \in EnvironmentNames \X EnvironmentNames :
        { MergedFile(pair[1], pair[2]), DetailFile(pair[1], pair[2]),
          SummaryFile(pair[1], pair[2]) } \cap DOMAIN results # {} }

\* The snapshot of every configured environment is in the results folder,
\* written from the response of this run.
AllSnapshotsSaved ==
    \A k \in 1..Len(config.environments) :
        /\ EntityFieldsFile(config.environments[k]) \in DOMAIN results
        /\ ~RaisesKeyError(remote[k])
        /\ results[EntityFieldsFile(config.environments[k])]
              = to_csv(EntityFields(remote[k].value))

\* The frame compare_environments reads from the snapshot of an environment.
SnapshotFrame(environment_name) ==
    sort_values(read_csv(results[EntityFieldsFile(environment_name)]))

\* C11: no comparison starts before the snapshots of all configured
\* environments are saved; each comparison is of one environment other than
\* the baseline, not compared before in the run, against the baseline
\* snapshot; a pass of the loop that raises nothing is such a comparison; and
\* at the end of a run that raised nothing the compared pairs are exactly
\* (environment, baseline) for every environment other than the baseline.
C11_ComparedOnceAgainstBaselineAfterSnapshots ==
    /\ [][ ( \/ pc \in { "compare_environments", "compare_loop" }
             \/ compare_vars' # compare_vars
             \/ ComparedPairs' # ComparedPairs )
           => AllSnapshotsSaved ]_vars
    /\ [][ ( \/ ComparedPairs' # ComparedPairs
             \/ (pc = "compare_loop" /\ pc' # "raised") )
           => \E e \in EnvironmentSet \ { config.baseline } :
                 /\ << e, config.baseline >> \notin ComparedPairs
                 /\ ComparedPairs' = ComparedPairs \cup { << e, config.baseline >> }
                 /\ merged_df' = sort_values(merge(SnapshotFrame(e),
                                                   SnapshotFrame(config.baseline)))
                 /\ results'[MergedFile(e, config.baseline)] = merged_df' ]_vars
    /\ [](pc = "done" =>
            ComparedPairs = (EnvironmentSet \ { config.baseline }) \X { config.baseline })

\* A run over three environments has ended with its two comparisons.
C11_Witness ==
    /\ pc = "done"
    /\ Len(config.environments) = 3
    /\ Cardinality(ComparedPairs) = 2

(***************************************************************************)
(* Claim about the labelling (SpecCompare).                                *)
(***************************************************************************)
\* C12: labelling changes only the Difference column: every row of the
\* Difference output has the EntityName, the ColumnName and the types and
\* lengths of both sides of the joined row it comes from, whatever the
\* values are (the texts 'both', 'left_only' and 'right_only' included).
C12_LabellingKeepsFields ==
    Compared =>
        \A n \in 1..Len(differences_df) :
            LET d == differences_df[n]
                m == merged_df[d.index]
            IN  /\ d.EntityName = m.EntityName
                /\ d.ColumnName = m.ColumnName
                /\ d.ColumnType_environment = m.ColumnType_environment
                /\ d.ColumnLength_environment = m.ColumnLength_environment
                /\ d.ColumnType_baseline = m.ColumnType_baseline
                /\ d.ColumnLength_baseline = m.ColumnLength_baseline

====
